---- MODULE Spec2Model ----
(***************************************************************************)
(* Model of the argus-rg10 scripts:                                        *)
(*   config_camera_rg10_rggb_output.py  (script "config")                  *)
(*   send_rg10_to_camera.py             (script "send")                    *)
(*   generate_rg10_rggb_file.py         (script "genfile")                 *)
(*   rgb8_to_rgb10.py                   (scalar conversions)               *)
(* Spec runs main() of one of the three scripts on a command line; the     *)
(* bus, the file system and the external commands answer                   *)
(* nondeterministically.  SpecCodec applies the pure conversion functions  *)
(* to inputs drawn from a bounded range.                                   *)
(***************************************************************************)
EXTENDS Integers, Sequences, FiniteSets, TLC

VARIABLES
    script,      \* which script's main() runs
    argv,        \* sys.argv[1:], each argument a sequence of characters
    pc,          \* position of the interpreter in the script
    rgb,         \* <<r, g, b>> after validate_color
    bytes,       \* <<r, g, b>> packed: each <<lsb, msb>>
    pair,        \* send_to_camera: index of the register pair being written
    busOpen,     \* number of SMBus handles currently open
    busOpens,    \* number of SMBus handles opened so far
    writes,      \* write_byte_data calls so far: [reg, val, ok]
    absorbed,    \* number of exceptions caught and not re-raised
    calls,       \* external commands run so far: [cmd, ok]
    rmmodRes,    \* outcome of the driver unload
    exc,         \* exception that ended the try block of main(), or "none"
    image,       \* image_data of the generator
    file,        \* the output file: [exists, data]
    exitStatus,  \* process exit status, -1 while running
    cfun,        \* SpecCodec: the function under application
    cin,         \* SpecCodec: its argument
    cout,        \* SpecCodec: its result, [done, ok, val]
    lut16,       \* rgb8_to_rgb10._LOOKUP_TABLE_16BIT, <<>> before the import
    lutScaled    \* rgb8_to_rgb10._LOOKUP_TABLE_SCALED_16BIT

mainVars == <<script, argv, pc, rgb, bytes, pair, busOpen, busOpens, writes,
              absorbed, calls, rmmodRes, exc, image, file, exitStatus>>
codecVars == <<cfun, cin, cout, lut16, lutScaled>>
vars == <<mainVars, codecVars>>

(***************************************************************************)
(* Bounds of the model.                                                    *)
(***************************************************************************)
\* width and height arguments range over -1..MaxDim
MaxDim == 4
\* SpecCodec tries arguments from -Margin to (top of the domain) + Margin
Margin == 256

(***************************************************************************)
(* Bit operations on Python integers.  a & m with a mask m >= 0 only sees  *)
(* the low bits of a, which for a negative a are those of a mod 2^16.      *)
(***************************************************************************)
RECURSIVE AndNat(_, _)
AndNat(a, b) ==
    IF a = 0 \/ b = 0 THEN 0
    ELSE (IF a % 2 = 1 /\ b % 2 = 1 THEN 1 ELSE 0) + 2 * AndNat(a \div 2, b \div 2)

RECURSIVE OrNat(_, _)
OrNat(a, b) ==
    IF a = 0 THEN b
    ELSE IF b = 0 THEN a
    ELSE (IF a % 2 = 1 \/ b % 2 = 1 THEN 1 ELSE 0) + 2 * OrNat(a \div 2, b \div 2)

BitAnd(a, m) == AndNat(a % 65536, m)
Shr(a, k) == a \div (2 ^ k)
Shl(a, k) == a * (2 ^ k)

(***************************************************************************)
(* Command-line arguments are strings, modelled as sequences of            *)
(* one-character strings.  "sup2" stands for the character U+00B2, which   *)
(* str.isdigit() accepts and int() rejects.                                *)
(***************************************************************************)
DecDigits == <<"0", "1", "2", "3", "4", "5", "6", "7", "8", "9">>
DecDigitSet == {DecDigits[i] : i \in 1..10}
DigitVal(c) == (CHOOSE i \in 1..10 : DecDigits[i] = c) - 1

\* str.isdigit(): non-empty and every character a digit character
IsDigit(s) == Len(s) > 0 /\ \A i \in 1..Len(s) : s[i] \in DecDigitSet \cup {"sup2"}

RECURSIVE DigitsValue(_)
DigitsValue(s) ==
    IF Len(s) = 0 THEN 0
    ELSE 10 * DigitsValue(SubSeq(s, 1, Len(s) - 1)) + DigitVal(s[Len(s)])

AllDecimal(s) == Len(s) > 0 /\ \A i \in 1..Len(s) : s[i] \in DecDigitSet

\* int(s): an optional sign and decimal digits, otherwise ValueError
PyInt(s) ==
    IF AllDecimal(s) THEN [ok |-> TRUE, val |-> DigitsValue(s)]
    ELSE IF Len(s) > 1 /\ s[1] \in {"-", "+"} /\ AllDecimal(Tail(s))
    THEN [ok |-> TRUE, val |-> (IF s[1] = "-" THEN -1 ELSE 1) * DigitsValue(Tail(s))]
    ELSE [ok |-> FALSE, val |-> 0]

\* str(n)
RECURSIVE NatStr(_)
NatStr(n) ==
    IF n < 10 THEN <<DecDigits[n + 1]>>
    ELSE Append(NatStr(n \div 10), DecDigits[(n % 10) + 1])
PyStr(n) == IF n < 0 THEN <<"-">> \o NatStr(-n) ELSE NatStr(n)

(***************************************************************************)
(* Results of functions that may raise: ok = FALSE is a raised ValueError  *)
(* (or IndexError), and then val carries nothing.                          *)
(***************************************************************************)
Raised == [ok |-> FALSE, val |-> <<>>]
Returned(v) == [ok |-> TRUE, val |-> v]

\* validate_color(val, name); the three scripts hold the same text
validate_color(val) ==
    IF ~IsDigit(val) THEN Raised
    ELSE LET p == PyInt(val) IN
         IF ~p.ok THEN Raised
         ELSE IF ~(0 <= p.val /\ p.val <= 1023) THEN Raised
         ELSE Returned(p.val)

\* convert_10bit_to_16bit with the msb masked to one bit instead of two
convert_10bit_to_16bit_Msb1Bit(value) ==
    IF ~(0 <= value /\ value <= 1023) THEN Raised
    ELSE LET lsb == BitAnd(value, 255)
             msb == BitAnd(Shr(value, 8), 1)
         IN  Returned(<<lsb, msb>>)

\* convert_10bit_to_16bit(value) -> (lsb, msb)
convert_10bit_to_16bit(value) ==
    IF ~(0 <= value /\ value <= 1023) THEN Raised
    ELSE LET lsb == BitAnd(value, 255)
             msb == BitAnd(Shr(value, 8), 3)
         IN  Returned(<<lsb, msb>>)

\* struct.pack('<BB', low, high): two unsigned bytes, struct.error outside 0..255
StructPackBB(low, high) ==
    IF low \in 0..255 /\ high \in 0..255 THEN Returned(<<low, high>>) ELSE Raised

\* to_rg10_bytes checking the upper end of the range only
to_rg10_bytes_NoLowerCheck(value) ==
    IF ~(value <= 1023) THEN Raised
    ELSE LET low == BitAnd(value, 255)
             high == BitAnd(Shr(value, 8), 3)
         IN  StructPackBB(low, high)

\* to_rg10_bytes(value) -> 2 bytes
to_rg10_bytes(value) ==
    IF ~(0 <= value /\ value <= 1023) THEN Raised
    ELSE LET low == BitAnd(value, 255)
             high == BitAnd(Shr(value, 8), 3)
         IN  StructPackBB(low, high)

\* convert_8bit_to_10bit_16bit(value)
convert_8bit_to_10bit_16bit(value) ==
    IF ~(0 <= value /\ value <= 255) THEN Raised
    ELSE LET result_10bit == (value * 1023 + 127) \div 255
         IN  Returned(<<BitAnd(result_10bit, 1023)>>)

\* convert_8bit_to_10bit_scaled_16bit(value)
convert_8bit_to_10bit_scaled_16bit(value) ==
    IF ~(0 <= value /\ value <= 255) THEN Raised
    ELSE LET result_10bit == (value * 1023 + 127) \div 255
             result_scaled == BitAnd(Shl(result_10bit, 4), 65535)
         IN  Returned(<<result_scaled>>)

\* convert_8bit_to_10bit_bitshift_16bit(value)
convert_8bit_to_10bit_bitshift_16bit(value) ==
    IF ~(0 <= value /\ value <= 255) THEN Raised
    ELSE LET result == OrNat(Shl(value, 2), Shr(value, 6))
         IN  Returned(<<BitAnd(result, 1023)>>)

\* the module-level list comprehensions of lines 176-177, over range(256)
BuildLookupTable16 ==
    [i \in 1..256 |-> convert_8bit_to_10bit_16bit(i - 1).val[1]]
BuildLookupTableScaled16 ==
    [i \in 1..256 |-> convert_8bit_to_10bit_scaled_16bit(i - 1).val[1]]

\* list[i] of Python: indices 0..len-1, and -len..-1 counted from the end;
\* anything else raises IndexError
PyIndex(list, i) ==
    IF 0 <= i /\ i < Len(list) THEN Returned(<<list[i + 1]>>)
    ELSE IF 0 - Len(list) <= i /\ i < 0 THEN Returned(<<list[Len(list) + i + 1]>>)
    ELSE Raised

\* the table lookup reading the entry after the one asked for
convert_8bit_to_10bit_lut_16bit_NextEntry(value) == PyIndex(lut16, value + 1)

\* convert_8bit_to_10bit_lut_16bit(value)
convert_8bit_to_10bit_lut_16bit(value) == PyIndex(lut16, value)

\* convert_8bit_to_10bit_lut_scaled_16bit(value)
convert_8bit_to_10bit_lut_scaled_16bit(value) == PyIndex(lutScaled, value)

(***************************************************************************)
(* Constants of the register-writing scripts.                              *)
(***************************************************************************)
I2C_BUS == 2
I2C_ADDR == 16
REG_ENABLE_TEST_PATTERN == 1536
REG_R_LSB_ADDR == 1538
REG_G1_LSB_ADDR == 1540
REG_G2_LSB_ADDR == 1542
REG_B_LSB_ADDR == 1544

\* exit statuses of config_camera_rg10_rggb_output.py: sys.exit(1) of setup()
\* (line 84), of cleanup() (lines 102, 109) and of the handler of main() (line 170)
SetupFailStatus == 1
RestoreFailStatus == 1
HandlerExitStatus == 1

(***************************************************************************)
(* Command lines.                                                          *)
(***************************************************************************)
Scripts == {"config", "send", "genfile", "genbin"}
BinaryArg == <<"b", "i", "n", "a", "r", "y">>
CameraArg == <<"c", "a", "m", "e", "r", "a">>
\* str.lower() on the characters the command lines use
Lower(s) ==
    [i \in 1..Len(s) |->
        IF s[i] = "B" THEN "b" ELSE IF s[i] = "C" THEN "c" ELSE s[i]]
ColorArgs ==
    {PyStr(n) : n \in {0, 512, 1023, 1024}}
        \cup {<<"-", "1">>, <<"a", "b", "c">>, <<>>, <<"sup2">>}
DimArgs == {PyStr(n) : n \in -1..MaxDim} \cup {<<"x">>}
OutFileArg == <<"o">>
Argvs(sc) ==
    IF sc = "genfile"
    THEN {<<r, g, b, w, h, OutFileArg>> :
              r \in ColorArgs, g \in ColorArgs, b \in ColorArgs,
              w \in DimArgs, h \in DimArgs}
         \cup {<<PyStr(0), PyStr(0), PyStr(0), PyStr(1), PyStr(1)>>}
    ELSE IF sc = "genbin"
    THEN {<<r, g, b, w, h, BinaryArg, OutFileArg>> :
              r \in ColorArgs, g \in ColorArgs, b \in ColorArgs,
              w \in DimArgs, h \in DimArgs}
         \cup {<<r, g, b, CameraArg>> :
                  r \in ColorArgs, g \in ColorArgs, b \in ColorArgs}
         \cup {<<PyStr(0), PyStr(0), PyStr(0)>>,
                <<PyStr(0), PyStr(0), PyStr(0), PyStr(1), PyStr(1), BinaryArg>>,
                <<PyStr(0), PyStr(0), PyStr(0), PyStr(1), PyStr(1), <<"x">>, OutFileArg>>,
                <<PyStr(0), PyStr(512), PyStr(1023), PyStr(2), PyStr(1),
                  <<"B", "i", "n", "a", "r", "y">>, OutFileArg>>,
                <<PyStr(0), PyStr(0), PyStr(0), <<"C", "a", "m", "e", "r", "a">>>>}
    ELSE {<<r, g, b>> : r \in ColorArgs, g \in ColorArgs, b \in ColorArgs}
         \cup {<<PyStr(0), PyStr(0)>>}

NoFile == [exists |-> FALSE, data |-> <<>>]
NoResult == [done |-> FALSE, ok |-> FALSE, val |-> <<>>]

MainStart(sc, av) ==
    /\ script = sc
    /\ argv = av
    /\ pc = "main"
    /\ rgb = <<>>
    /\ bytes = <<>>
    /\ pair = 0
    /\ busOpen = 0
    /\ busOpens = 0
    /\ writes = <<>>
    /\ absorbed = 0
    /\ calls = <<>>
    /\ rmmodRes = "none"
    /\ exc = "none"
    /\ image = <<>>
    /\ file = NoFile
    /\ exitStatus = -1

CodecIdle ==
    /\ cfun = "none"
    /\ cin = 0
    /\ cout = NoResult
    /\ lut16 = <<>>
    /\ lutScaled = <<>>

\* a direct call of send_to_camera() of config_camera_rg10_rggb_output.py
\* with the packed samples main() passes at lines 158-163
SendToCameraArgs ==
    {<<convert_10bit_to_16bit(r).val, convert_10bit_to_16bit(g).val,
       convert_10bit_to_16bit(b).val>> :
        r \in {0, 512, 1023}, g \in {0, 512, 1023}, b \in {0, 512, 1023}}

SendToCameraStart(bs) ==
    /\ script = "config_send"
    /\ argv = <<>>
    /\ pc = "main"
    /\ rgb = <<>>
    /\ bytes = bs
    /\ pair = 0
    /\ busOpen = 0
    /\ busOpens = 0
    /\ writes = <<>>
    /\ absorbed = 0
    /\ calls = <<>>
    /\ rmmodRes = "none"
    /\ exc = "none"
    /\ image = <<>>
    /\ file = NoFile
    /\ exitStatus = -1

Init ==
    /\ \/ \E sc \in Scripts : \E av \in Argvs(sc) : MainStart(sc, av)
       \/ \E bs \in SendToCameraArgs : SendToCameraStart(bs)
    /\ CodecIdle

(***************************************************************************)
(* Building blocks of the actions.                                         *)
(***************************************************************************)
\* sys.exit(status), or the interpreter ending on an uncaught exception
Exit(status) ==
    /\ pc' = "exited"
    /\ exitStatus' = status

\* subprocess.run(cmd, check=True) returning (ok) or raising CalledProcessError
RunCmd(cmd, ok) == calls' = Append(calls, [cmd |-> cmd, ok |-> ok])

\* bus.write_byte_data(I2C_ADDR, reg, val) returning (ok) or raising OSError
WriteByteData(reg, val, ok) ==
    writes' = Append(writes, [reg |-> reg, val |-> val, ok |-> ok])

\* lines 132-150 of the two register-writing scripts: validate, then convert
ParseColors ==
    LET r == validate_color(argv[1])
        g == validate_color(argv[2])
        b == validate_color(argv[3])
    IN  IF ~(r.ok /\ g.ok /\ b.ok) THEN Raised
        ELSE LET rb == convert_10bit_to_16bit(r.val)
                 gb == convert_10bit_to_16bit(g.val)
                 bb == convert_10bit_to_16bit(b.val)
             IN  IF ~(rb.ok /\ gb.ok /\ bb.ok) THEN Raised
                 ELSE Returned([rgb |-> <<r.val, g.val, b.val>>,
                                bytes |-> <<rb.val, gb.val, bb.val>>])

(***************************************************************************)
(* config_camera_rg10_rggb_output.py                                       *)
(***************************************************************************)
\* main() going on to setup() after a validation error, the rejected
\* samples masked to 10 bits
ConfigMainParse_Unchecked ==
    /\ script = "config" /\ pc = "main"
    /\ IF Len(argv) # 3
       THEN /\ Exit(1)
            /\ UNCHANGED <<rgb, bytes>>
       ELSE /\ rgb' = [i \in 1..3 |-> BitAnd(PyInt(argv[i]).val, 1023)]
            /\ bytes' = [i \in 1..3 |->
                            <<BitAnd(PyInt(argv[i]).val, 255),
                              BitAnd(Shr(PyInt(argv[i]).val, 8), 3)>>]
            /\ pc' = "setup_rmmod"
            /\ UNCHANGED exitStatus
    /\ UNCHANGED <<script, argv, pair, busOpen, busOpens, writes, absorbed,
                   calls, rmmodRes, exc, image, file, codecVars>>

\* main(), lines 128-150: argument count, validation, conversion
ConfigMainParse ==
    /\ script = "config" /\ pc = "main"
    /\ IF Len(argv) # 3 \/ ~ParseColors.ok
       THEN /\ Exit(1)
            /\ UNCHANGED <<rgb, bytes>>
       ELSE /\ rgb' = ParseColors.val.rgb
            /\ bytes' = ParseColors.val.bytes
            /\ pc' = "setup_rmmod"
            /\ UNCHANGED exitStatus
    /\ UNCHANGED <<script, argv, pair, busOpen, busOpens, writes, absorbed,
                   calls, rmmodRes, exc, image, file, codecVars>>

\* setup() treating "not currently loaded" like any other rmmod failure
ConfigSetupRmmod_NotLoadedFatal ==
    /\ script = "config" /\ pc = "setup_rmmod"
    /\ \E res \in {"ok", "not_loaded", "other"} :
        /\ rmmodRes' = res
        /\ RunCmd("rmmod", res = "ok")
        /\ IF res # "ok"
           THEN Exit(SetupFailStatus)
           ELSE pc' = "setup_open" /\ UNCHANGED exitStatus
    /\ UNCHANGED <<script, argv, rgb, bytes, pair, busOpen, busOpens, writes,
                   absorbed, exc, image, file, codecVars>>

\* setup(), lines 75-84: sudo rmmod li_imx477.  sys.exit(1) raises SystemExit,
\* which the "except Exception" of main() does not catch.
ConfigSetupRmmod ==
    /\ script = "config" /\ pc = "setup_rmmod"
    /\ \E res \in {"ok", "not_loaded", "other"} :
        /\ rmmodRes' = res
        /\ RunCmd("rmmod", res = "ok")
        /\ IF res = "other"
           THEN Exit(SetupFailStatus)
           ELSE pc' = "setup_open" /\ UNCHANGED exitStatus
    /\ UNCHANGED <<script, argv, rgb, bytes, pair, busOpen, busOpens, writes,
                   absorbed, exc, image, file, codecVars>>

\* setup(), line 87: with SMBus(I2C_BUS) as bus.  A failed open raises out of
\* setup() (line 92) into the handler of main() (line 168).
ConfigSetupOpen ==
    /\ script = "config" /\ pc = "setup_open"
    /\ \E ok \in BOOLEAN :
        IF ok
        THEN /\ busOpen' = busOpen + 1
             /\ busOpens' = busOpens + 1
             /\ pc' = "setup_w_lsb"
             /\ UNCHANGED exc
        ELSE /\ exc' = "OSError"
             /\ pc' = "handler_modprobe"
             /\ UNCHANGED <<busOpen, busOpens>>
    /\ UNCHANGED <<script, argv, rgb, bytes, pair, writes, absorbed, calls,
                   rmmodRes, image, file, exitStatus, codecVars>>

\* write_i2c(bus, 0x1, 0x0, REG_ENABLE_TEST_PATTERN), line 47: the lsb write.
\* A failure is printed and re-raised (line 51), the with block releases the
\* bus, setup() re-raises (line 92).
ConfigSetupWriteLsb ==
    /\ script = "config" /\ pc = "setup_w_lsb"
    /\ \E ok \in BOOLEAN :
        /\ WriteByteData(REG_ENABLE_TEST_PATTERN, 1, ok)
        /\ IF ok
           THEN /\ pc' = "setup_w_msb"
                /\ UNCHANGED <<busOpen, exc>>
           ELSE /\ busOpen' = busOpen - 1
                /\ exc' = "OSError"
                /\ pc' = "handler_modprobe"
    /\ UNCHANGED <<script, argv, rgb, bytes, pair, busOpens, absorbed, calls,
                   rmmodRes, image, file, exitStatus, codecVars>>

\* the msb write of setup() ending the process on a failure (sys.exit in
\* place of raise), so that the handler of main() never runs
ConfigSetupWriteMsb_ExitOnFailure ==
    /\ script = "config" /\ pc = "setup_w_msb"
    /\ \E ok \in BOOLEAN :
        /\ WriteByteData(REG_ENABLE_TEST_PATTERN + 1, 0, ok)
        /\ busOpen' = busOpen - 1
        /\ IF ok
           THEN /\ pc' = "send_call"
                /\ UNCHANGED <<exc, exitStatus>>
           ELSE /\ exc' = "SystemExit"
                /\ Exit(1)
    /\ UNCHANGED <<script, argv, rgb, bytes, pair, busOpens, absorbed, calls,
                   rmmodRes, image, file, codecVars>>

\* write_i2c, line 48: the msb write; then the with block of setup() ends
ConfigSetupWriteMsb ==
    /\ script = "config" /\ pc = "setup_w_msb"
    /\ \E ok \in BOOLEAN :
        /\ WriteByteData(REG_ENABLE_TEST_PATTERN + 1, 0, ok)
        /\ busOpen' = busOpen - 1
        /\ IF ok
           THEN /\ pc' = "send_call"
                /\ UNCHANGED exc
           ELSE /\ exc' = "OSError"
                /\ pc' = "handler_modprobe"
    /\ UNCHANGED <<script, argv, rgb, bytes, pair, busOpens, absorbed, calls,
                   rmmodRes, image, file, exitStatus, codecVars>>

\* main(), line 156: send_to_camera(0,1) passes two arguments to a function
\* of four parameters: Python raises TypeError before the body runs, and the
\* handler of line 168 takes over.  Lines 158-167 are never reached.
ConfigSendCall ==
    /\ script = "config" /\ pc = "send_call"
    /\ exc' = "TypeError"
    /\ pc' = "handler_modprobe"
    /\ UNCHANGED <<script, argv, rgb, bytes, pair, busOpen, busOpens, writes,
                   absorbed, calls, rmmodRes, image, file, exitStatus, codecVars>>

\* cleanup() going on to the service restart after a failed modprobe
ConfigCleanupModprobe_ContinueOnFailure ==
    /\ script = "config" /\ pc = "handler_modprobe"
    /\ \E ok \in BOOLEAN :
        /\ RunCmd("modprobe", ok)
        /\ pc' = "handler_restart"
    /\ UNCHANGED <<script, argv, rgb, bytes, pair, busOpen, busOpens, writes,
                   absorbed, rmmodRes, exc, image, file, exitStatus, codecVars>>

\* cleanup() called from the handler (line 169): sudo modprobe li_imx477,
\* lines 97-102
ConfigCleanupModprobe ==
    /\ script = "config" /\ pc = "handler_modprobe"
    /\ \E ok \in BOOLEAN :
        /\ RunCmd("modprobe", ok)
        /\ IF ok
           THEN pc' = "handler_restart" /\ UNCHANGED exitStatus
           ELSE Exit(RestoreFailStatus)
    /\ UNCHANGED <<script, argv, rgb, bytes, pair, busOpen, busOpens, writes,
                   absorbed, rmmodRes, exc, image, file, codecVars>>

\* cleanup() returning after modprobe, the service restart left out
ConfigCleanupRestart_Skipped ==
    /\ script = "config" /\ pc = "handler_restart"
    /\ pc' = "handler_exit"
    /\ UNCHANGED <<script, argv, rgb, bytes, pair, busOpen, busOpens, writes,
                   absorbed, calls, rmmodRes, exc, image, file, exitStatus,
                   codecVars>>

\* cleanup(), lines 104-109: sudo systemctl restart nvargus-daemon
ConfigCleanupRestart ==
    /\ script = "config" /\ pc = "handler_restart"
    /\ \E ok \in BOOLEAN :
        /\ RunCmd("restart", ok)
        /\ IF ok
           THEN pc' = "handler_exit" /\ UNCHANGED exitStatus
           ELSE Exit(RestoreFailStatus)
    /\ UNCHANGED <<script, argv, rgb, bytes, pair, busOpen, busOpens, writes,
                   absorbed, rmmodRes, exc, image, file, codecVars>>

\* main(), line 170: sys.exit(1) after cleanup() returned
ConfigHandlerExit ==
    /\ script = "config" /\ pc = "handler_exit"
    /\ Exit(HandlerExitStatus)
    /\ UNCHANGED <<script, argv, rgb, bytes, pair, busOpen, busOpens, writes,
                   absorbed, calls, rmmodRes, exc, image, file, codecVars>>

ConfigNext ==
    \/ ConfigMainParse
    \/ ConfigSetupRmmod
    \/ ConfigSetupOpen
    \/ ConfigSetupWriteLsb
    \/ ConfigSetupWriteMsb
    \/ ConfigSendCall
    \/ ConfigCleanupModprobe
    \/ ConfigCleanupRestart
    \/ ConfigHandlerExit

(***************************************************************************)
(* send_rg10_to_camera.py                                                  *)
(***************************************************************************)
\* send_to_camera(r_bytes, g1_bytes, g2_bytes, b_bytes): the four pairs in
\* the order of lines 56-59, green passed twice (lines 129-134)
ChannelRegs == <<REG_R_LSB_ADDR, REG_G1_LSB_ADDR, REG_G2_LSB_ADDR, REG_B_LSB_ADDR>>
ChannelBytes == <<bytes[1], bytes[2], bytes[2], bytes[3]>>
NumPairs == Len(ChannelRegs)

\* main(), lines 100-122
SendMainParse ==
    /\ script = "send" /\ pc = "main"
    /\ IF Len(argv) # 3 \/ ~ParseColors.ok
       THEN /\ Exit(1)
            /\ UNCHANGED <<rgb, bytes>>
       ELSE /\ rgb' = ParseColors.val.rgb
            /\ bytes' = ParseColors.val.bytes
            /\ pc' = "s_setup"
            /\ UNCHANGED exitStatus
    /\ UNCHANGED <<script, argv, pair, busOpen, busOpens, writes, absorbed,
                   calls, rmmodRes, exc, image, file, codecVars>>

\* setup(), lines 64-72
SendSetup ==
    /\ script = "send" /\ pc = "s_setup"
    /\ \E ok \in BOOLEAN :
        /\ rmmodRes' = IF ok THEN "ok" ELSE "other"
        /\ RunCmd("rmmod", ok)
        /\ IF ok
           THEN pc' = "s_open" /\ UNCHANGED exitStatus
           ELSE Exit(1)
    /\ UNCHANGED <<script, argv, rgb, bytes, pair, busOpen, busOpens, writes,
                   absorbed, exc, image, file, codecVars>>

\* send_to_camera(), line 55: with SMBus(I2C_BUS) as bus.  A failed open is
\* caught at line 61, printed, and send_to_camera() returns normally.
SendOpen ==
    /\ script = "send" /\ pc = "s_open"
    /\ \E ok \in BOOLEAN :
        IF ok
        THEN /\ busOpen' = busOpen + 1
             /\ busOpens' = busOpens + 1
             /\ pair' = 1
             /\ pc' = "s_w_lsb"
             /\ UNCHANGED absorbed
        ELSE /\ absorbed' = absorbed + 1
             /\ pc' = "s_clear_modprobe"
             /\ UNCHANGED <<busOpen, busOpens, pair>>
    /\ UNCHANGED <<script, argv, rgb, bytes, writes, calls, rmmodRes, exc,
                   image, file, exitStatus, codecVars>>

\* after write_i2c of the current pair returned: the next pair, or the end of
\* the with block (line 59) and of send_to_camera()
SendAdvance ==
    IF pair < NumPairs
    THEN /\ pair' = pair + 1
         /\ pc' = "s_w_lsb"
         /\ UNCHANGED busOpen
    ELSE /\ pair' = pair
         /\ busOpen' = busOpen - 1
         /\ pc' = "s_clear_modprobe"

\* write_i2c(), line 45: the lsb write.  A failure is caught at line 47 and
\* printed; write_i2c() returns normally, skipping line 46.
SendWriteLsb ==
    /\ script = "send" /\ pc = "s_w_lsb"
    /\ \E ok \in BOOLEAN :
        /\ WriteByteData(ChannelRegs[pair], ChannelBytes[pair][1], ok)
        /\ IF ok
           THEN /\ pc' = "s_w_msb"
                /\ UNCHANGED <<pair, busOpen, absorbed>>
           ELSE /\ absorbed' = absorbed + 1
                /\ SendAdvance
    /\ UNCHANGED <<script, argv, rgb, bytes, busOpens, calls, rmmodRes, exc,
                   image, file, exitStatus, codecVars>>

\* write_i2c(), line 46: the msb write; a failure is caught at line 47
SendWriteMsb ==
    /\ script = "send" /\ pc = "s_w_msb"
    /\ \E ok \in BOOLEAN :
        /\ WriteByteData(ChannelRegs[pair] + 1, ChannelBytes[pair][2], ok)
        /\ absorbed' = IF ok THEN absorbed ELSE absorbed + 1
        /\ SendAdvance
    /\ UNCHANGED <<script, argv, rgb, bytes, busOpens, calls, rmmodRes, exc,
                   image, file, exitStatus, codecVars>>

\* clear(), lines 77-82
SendClearModprobe ==
    /\ script = "send" /\ pc = "s_clear_modprobe"
    /\ \E ok \in BOOLEAN :
        /\ RunCmd("modprobe", ok)
        /\ IF ok
           THEN pc' = "s_clear_restart" /\ UNCHANGED exitStatus
           ELSE Exit(1)
    /\ UNCHANGED <<script, argv, rgb, bytes, pair, busOpen, busOpens, writes,
                   absorbed, rmmodRes, exc, image, file, codecVars>>

\* clear(), lines 84-89
SendClearRestart ==
    /\ script = "send" /\ pc = "s_clear_restart"
    /\ \E ok \in BOOLEAN :
        /\ RunCmd("restart", ok)
        /\ IF ok
           THEN pc' = "s_show" /\ UNCHANGED exitStatus
           ELSE Exit(1)
    /\ UNCHANGED <<script, argv, rgb, bytes, pair, busOpen, busOpens, writes,
                   absorbed, rmmodRes, exc, image, file, codecVars>>

\* show(), lines 92-97; then main() returns and the process exits with 0
SendShow ==
    /\ script = "send" /\ pc = "s_show"
    /\ \E ok \in BOOLEAN :
        /\ RunCmd("gst-launch", ok)
        /\ Exit(IF ok THEN 0 ELSE 1)
    /\ UNCHANGED <<script, argv, rgb, bytes, pair, busOpen, busOpens, writes,
                   absorbed, rmmodRes, exc, image, file, codecVars>>

SendNext ==
    \/ SendMainParse
    \/ SendSetup
    \/ SendOpen
    \/ SendWriteLsb
    \/ SendWriteMsb
    \/ SendClearModprobe
    \/ SendClearRestart
    \/ SendShow

(***************************************************************************)
(* send_to_camera() of config_camera_rg10_rggb_output.py, lines 54-70,     *)
(* called on its own: main() never gets to its body (line 156).            *)
(***************************************************************************)
\* line 58: with SMBus(I2C_BUS) as bus; a failed open is re-raised (line 70)
CfgSendOpen ==
    /\ script = "config_send" /\ pc = "main"
    /\ \E ok \in BOOLEAN :
        IF ok
        THEN /\ busOpen' = busOpen + 1
             /\ busOpens' = busOpens + 1
             /\ pair' = 1
             /\ pc' = "cs_w_lsb"
             /\ UNCHANGED exc
        ELSE /\ exc' = "OSError"
             /\ pc' = "raised"
             /\ UNCHANGED <<busOpen, busOpens, pair>>
    /\ UNCHANGED <<script, argv, rgb, bytes, writes, absorbed, calls,
                   rmmodRes, image, file, exitStatus, codecVars>>

\* the lsb write of a pair leaving the bus handle open when it raises
CfgSendWriteLsb_NoRelease ==
    /\ script = "config_send" /\ pc = "cs_w_lsb"
    /\ \E ok \in BOOLEAN :
        /\ WriteByteData(ChannelRegs[pair], ChannelBytes[pair][1], ok)
        /\ IF ok
           THEN /\ pc' = "cs_w_msb"
                /\ UNCHANGED <<busOpen, exc>>
           ELSE /\ exc' = "OSError"
                /\ pc' = "raised"
                /\ UNCHANGED busOpen
    /\ UNCHANGED <<script, argv, rgb, bytes, pair, busOpens, absorbed, calls,
                   rmmodRes, image, file, exitStatus, codecVars>>

\* write_i2c(), line 47, for the current pair: the lsb write.  A failure is
\* re-raised (line 51), the with block releases the bus, line 70 re-raises.
CfgSendWriteLsb ==
    /\ script = "config_send" /\ pc = "cs_w_lsb"
    /\ \E ok \in BOOLEAN :
        /\ WriteByteData(ChannelRegs[pair], ChannelBytes[pair][1], ok)
        /\ IF ok
           THEN /\ pc' = "cs_w_msb"
                /\ UNCHANGED <<busOpen, exc>>
           ELSE /\ busOpen' = busOpen - 1
                /\ exc' = "OSError"
                /\ pc' = "raised"
    /\ UNCHANGED <<script, argv, rgb, bytes, pair, busOpens, absorbed, calls,
                   rmmodRes, image, file, exitStatus, codecVars>>

\* write_i2c(), line 48: the msb write; then the next pair, or the end of the
\* with block (line 67) and the return
CfgSendWriteMsb ==
    /\ script = "config_send" /\ pc = "cs_w_msb"
    /\ \E ok \in BOOLEAN :
        /\ WriteByteData(ChannelRegs[pair] + 1, ChannelBytes[pair][2], ok)
        /\ IF ~ok
           THEN /\ busOpen' = busOpen - 1
                /\ exc' = "OSError"
                /\ pc' = "raised"
                /\ UNCHANGED pair
           ELSE IF pair < NumPairs
           THEN /\ pair' = pair + 1
                /\ pc' = "cs_w_lsb"
                /\ UNCHANGED <<busOpen, exc>>
           ELSE /\ busOpen' = busOpen - 1
                /\ pc' = "returned"
                /\ UNCHANGED <<pair, exc>>
    /\ UNCHANGED <<script, argv, rgb, bytes, busOpens, absorbed, calls,
                   rmmodRes, image, file, exitStatus, codecVars>>

CfgSendNext ==
    \/ CfgSendOpen
    \/ CfgSendWriteLsb
    \/ CfgSendWriteMsb

(***************************************************************************)
(* generate_rg10_rggb_file.py                                              *)
(***************************************************************************)
\* the parity rule with the odd rows laid out blue first (B G instead of G B)
BayerColor_OddRowSwapped(R, G, B, x, y) ==
    IF y % 2 = 0
    THEN (IF x % 2 = 0 THEN R ELSE G)
    ELSE (IF x % 2 = 0 THEN B ELSE G)

\* lines 52-55: the RGGB parity rule
BayerColor(R, G, B, x, y) ==
    IF y % 2 = 0
    THEN (IF x % 2 = 0 THEN R ELSE G)
    ELSE (IF x % 2 = 0 THEN G ELSE B)

\* the loop of line 50 from column x on; acc is image_data so far, or Raised
RECURSIVE RowLoop(_, _, _, _, _, _, _)
RowLoop(acc, R, G, B, x, y, W) ==
    IF ~acc.ok \/ x >= W THEN acc
    ELSE LET packed == to_rg10_bytes(BayerColor(R, G, B, x, y))
         IN  IF ~packed.ok THEN Raised
             ELSE RowLoop(Returned(acc.val \o packed.val), R, G, B, x + 1, y, W)

\* the loop of line 49 from row y on
RECURSIVE ImageLoop(_, _, _, _, _, _, _)
ImageLoop(acc, R, G, B, y, W, H) ==
    IF ~acc.ok \/ y >= H THEN acc
    ELSE ImageLoop(RowLoop(acc, R, G, B, 0, y, W), R, G, B, y + 1, W, H)

\* lines 35-41: the body of the try block
GenParse ==
    LET r == validate_color(argv[1])
        g == validate_color(argv[2])
        b == validate_color(argv[3])
        w == PyInt(argv[4])
        h == PyInt(argv[5])
    IN  IF ~(r.ok /\ g.ok /\ b.ok /\ w.ok /\ h.ok) THEN Raised
        ELSE Returned([rgb |-> <<r.val, g.val, b.val>>, W |-> w.val, H |-> h.val])

\* main(), lines 31-45
GenMainParse ==
    /\ script = "genfile" /\ pc = "main"
    /\ IF Len(argv) # 6 \/ ~GenParse.ok
       THEN /\ Exit(1)
            /\ UNCHANGED rgb
       ELSE /\ rgb' = GenParse.val.rgb
            /\ pc' = "g_build"
            /\ UNCHANGED exitStatus
    /\ UNCHANGED <<script, argv, bytes, pair, busOpen, busOpens, writes,
                   absorbed, calls, rmmodRes, exc, image, file, codecVars>>

\* main(), lines 48-56: image_data; a ValueError of to_rg10_bytes is not
\* caught and ends the process
GenBuild ==
    /\ script = "genfile" /\ pc = "g_build"
    /\ LET data == ImageLoop(Returned(<<>>), rgb[1], rgb[2], rgb[3], 0,
                             GenParse.val.W, GenParse.val.H)
       IN  IF data.ok
           THEN /\ image' = data.val
                /\ pc' = "g_write"
                /\ UNCHANGED exitStatus
           ELSE /\ Exit(1)
                /\ UNCHANGED image
    /\ UNCHANGED <<script, argv, rgb, bytes, pair, busOpen, busOpens, writes,
                   absorbed, calls, rmmodRes, exc, file, codecVars>>

\* main(), lines 58-60: open(outfile, 'wb') and f.write(image_data); an
\* OSError of open() is not caught
GenWrite ==
    /\ script = "genfile" /\ pc = "g_write"
    /\ \E ok \in BOOLEAN :
        IF ok
        THEN /\ file' = [exists |-> TRUE, data |-> image]
             /\ Exit(0)
        ELSE /\ Exit(1)
             /\ UNCHANGED file
    /\ UNCHANGED <<script, argv, rgb, bytes, pair, busOpen, busOpens, writes,
                   absorbed, calls, rmmodRes, exc, image, codecVars>>

GenNext ==
    \/ GenMainParse
    \/ GenBuild
    \/ GenWrite

(***************************************************************************)
(* generate_rg10_rggb_binary.py; its validate_color and to_rg10_bytes hold *)
(* the same text as those of generate_rg10_rggb_file.py.  len(sys.argv) is *)
(* Len(argv) + 1.                                                          *)
(***************************************************************************)
\* lines 42-62: the body of the try block.  mode "usage" is the sys.exit(1)
\* of lines 52-54 and 60-62, which the "except Exception" does not catch.
BinParse ==
    LET r == validate_color(argv[1])
        g == validate_color(argv[2])
        b == validate_color(argv[3])
    IN  IF ~(r.ok /\ g.ok /\ b.ok) THEN Raised
        ELSE IF Len(argv) + 1 >= 7 /\ Lower(argv[6]) = BinaryArg
        THEN LET w == PyInt(argv[4])
                 h == PyInt(argv[5])
             IN  IF ~(w.ok /\ h.ok) THEN Raised
                 ELSE IF Len(argv) + 1 # 8
                 THEN Returned([mode |-> "usage", rgb |-> <<r.val, g.val, b.val>>,
                                W |-> w.val, H |-> h.val])
                 ELSE Returned([mode |-> "binary", rgb |-> <<r.val, g.val, b.val>>,
                                W |-> w.val, H |-> h.val])
        ELSE IF Len(argv) + 1 = 5 /\ Lower(argv[4]) = CameraArg
        THEN Returned([mode |-> "camera", rgb |-> <<r.val, g.val, b.val>>,
                       W |-> 0, H |-> 0])
        ELSE Returned([mode |-> "usage", rgb |-> <<r.val, g.val, b.val>>,
                       W |-> 0, H |-> 0])

\* main(), lines 38-67
BinMainParse ==
    /\ script = "genbin" /\ pc = "main"
    /\ IF Len(argv) + 1 < 5 \/ ~BinParse.ok \/ BinParse.val.mode = "usage"
       THEN /\ Exit(1)
            /\ UNCHANGED rgb
       ELSE /\ rgb' = BinParse.val.rgb
            /\ pc' = IF BinParse.val.mode = "binary" THEN "b_build" ELSE "b_camera"
            /\ UNCHANGED exitStatus
    /\ UNCHANGED <<script, argv, bytes, pair, busOpen, busOpens, writes,
                   absorbed, calls, rmmodRes, exc, image, file, codecVars>>

\* main(), lines 70-79: image_data in binary mode
BinBuild ==
    /\ script = "genbin" /\ pc = "b_build"
    /\ LET data == ImageLoop(Returned(<<>>), rgb[1], rgb[2], rgb[3], 0,
                             BinParse.val.W, BinParse.val.H)
       IN  IF data.ok
           THEN /\ image' = data.val
                /\ pc' = "b_write"
                /\ UNCHANGED exitStatus
           ELSE /\ Exit(1)
                /\ UNCHANGED image
    /\ UNCHANGED <<script, argv, rgb, bytes, pair, busOpen, busOpens, writes,
                   absorbed, calls, rmmodRes, exc, file, codecVars>>

\* main(), lines 81-84: open(outfile, 'wb') and f.write(image_data)
BinWrite ==
    /\ script = "genbin" /\ pc = "b_write"
    /\ \E ok \in BOOLEAN :
        IF ok
        THEN /\ file' = [exists |-> TRUE, data |-> image]
             /\ Exit(0)
        ELSE /\ Exit(1)
             /\ UNCHANGED file
    /\ UNCHANGED <<script, argv, rgb, bytes, pair, busOpen, busOpens, writes,
                   absorbed, calls, rmmodRes, exc, image, codecVars>>

\* main(), lines 85-91: camera mode packs R, G, B and prints them
BinCamera ==
    /\ script = "genbin" /\ pc = "b_camera"
    /\ LET rb == to_rg10_bytes(rgb[1])
           gb == to_rg10_bytes(rgb[2])
           bb == to_rg10_bytes(rgb[3])
       IN  IF rb.ok /\ gb.ok /\ bb.ok
           THEN /\ bytes' = <<rb.val, gb.val, bb.val>>
                /\ Exit(0)
           ELSE /\ Exit(1)
                /\ UNCHANGED bytes
    /\ UNCHANGED <<script, argv, rgb, pair, busOpen, busOpens, writes,
                   absorbed, calls, rmmodRes, exc, image, file, codecVars>>

BinNext ==
    \/ BinMainParse
    \/ BinBuild
    \/ BinWrite
    \/ BinCamera

Next == ConfigNext \/ SendNext \/ CfgSendNext \/ GenNext \/ BinNext

Spec == Init /\ [][Next]_vars

(***************************************************************************)
(* SpecCodec: one call of a conversion function on an argument taken from  *)
(* its domain widened by Margin on both sides.                             *)
(***************************************************************************)
Codec10Funs == {"convert_10bit_to_16bit", "to_rg10_bytes"}
Codec8Funs ==
    {"convert_8bit_to_10bit_16bit", "convert_8bit_to_10bit_scaled_16bit",
     "convert_8bit_to_10bit_bitshift_16bit", "convert_8bit_to_10bit_lut_16bit",
     "convert_8bit_to_10bit_lut_scaled_16bit"}
CodecFuns == Codec10Funs \cup Codec8Funs
CodecInputs(f) ==
    IF f \in Codec8Funs
    THEN (0 - Margin)..(255 + Margin)
    ELSE (0 - Margin)..(1023 + Margin)

\* rgb8_to_rgb10 has been imported (its tables are built), nothing called yet
InitCodec ==
    /\ MainStart("none", <<>>)
    /\ cfun \in CodecFuns
    /\ cin \in CodecInputs(cfun)
    /\ cout = NoResult
    /\ lut16 = BuildLookupTable16
    /\ lutScaled = BuildLookupTableScaled16

CallResult(res) == [done |-> TRUE, ok |-> res.ok, val |-> res.val]

CallConvert10 ==
    /\ cfun = "convert_10bit_to_16bit" /\ ~cout.done
    /\ cout' = CallResult(convert_10bit_to_16bit(cin))
    /\ UNCHANGED <<mainVars, cfun, cin, lut16, lutScaled>>

CallToRg10Bytes ==
    /\ cfun = "to_rg10_bytes" /\ ~cout.done
    /\ cout' = CallResult(to_rg10_bytes(cin))
    /\ UNCHANGED <<mainVars, cfun, cin, lut16, lutScaled>>

CallConvert8To10 ==
    /\ cfun = "convert_8bit_to_10bit_16bit" /\ ~cout.done
    /\ cout' = CallResult(convert_8bit_to_10bit_16bit(cin))
    /\ UNCHANGED <<mainVars, cfun, cin, lut16, lutScaled>>

CallConvert8To10Scaled ==
    /\ cfun = "convert_8bit_to_10bit_scaled_16bit" /\ ~cout.done
    /\ cout' = CallResult(convert_8bit_to_10bit_scaled_16bit(cin))
    /\ UNCHANGED <<mainVars, cfun, cin, lut16, lutScaled>>

CallConvert8To10Bitshift ==
    /\ cfun = "convert_8bit_to_10bit_bitshift_16bit" /\ ~cout.done
    /\ cout' = CallResult(convert_8bit_to_10bit_bitshift_16bit(cin))
    /\ UNCHANGED <<mainVars, cfun, cin, lut16, lutScaled>>

CallConvert8To10Lut ==
    /\ cfun = "convert_8bit_to_10bit_lut_16bit" /\ ~cout.done
    /\ cout' = CallResult(convert_8bit_to_10bit_lut_16bit(cin))
    /\ UNCHANGED <<mainVars, cfun, cin, lut16, lutScaled>>

CallConvert8To10LutScaled ==
    /\ cfun = "convert_8bit_to_10bit_lut_scaled_16bit" /\ ~cout.done
    /\ cout' = CallResult(convert_8bit_to_10bit_lut_scaled_16bit(cin))
    /\ UNCHANGED <<mainVars, cfun, cin, lut16, lutScaled>>

NextCodec ==
    \/ CallConvert10
    \/ CallToRg10Bytes
    \/ CallConvert8To10
    \/ CallConvert8To10Scaled
    \/ CallConvert8To10Bitshift
    \/ CallConvert8To10Lut
    \/ CallConvert8To10LutScaled

SpecCodec == InitCodec /\ [][NextCodec]_vars

(***************************************************************************)
(* Properties.                                                             *)
(***************************************************************************)
Exited == pc = "exited"
Called(cmd) == \E i \in 1..Len(calls) : calls[i].cmd = cmd
CallFailed(cmd) == \E i \in 1..Len(calls) : calls[i].cmd = cmd /\ ~calls[i].ok
CmdsOf(cs) == [i \in 1..Len(cs) |-> cs[i].cmd]
IsRestoreCall(c) == c.cmd \in {"modprobe", "restart"}
SomeWriteFailed == \E i \in 1..Len(writes) : ~writes[i].ok
PastUnload == rmmodRes \in {"ok", "not_loaded"}
RegVals(ws) == [i \in 1..Len(ws) |-> <<ws[i].reg, ws[i].val>>]

\* C1: config script: a run that got past the driver unload never exits
\* before cleanup() was entered (modprobe attempted), whatever step failed;
\* in particular no run exits with the test pattern enabled and no
\* restoration attempted.
C1_CleanupBeforeExit ==
    (script = "config" /\ Exited)
        => /\ PastUnload => Called("modprobe")
           /\ Len(writes) > 0 => Called("modprobe")

\* C1 witness: a run whose enable write succeeded and whose msb write raised
\* has exited after attempting the re-attach
C1_Witness ==
    /\ script = "config" /\ Exited
    /\ Len(writes) = 2 /\ writes[1].ok /\ ~writes[2].ok
    /\ exc = "OSError"
    /\ Called("modprobe")

\* C2: config script: when a register write raised and the restoration
\* commands succeed, the process exits having run modprobe exactly once and
\* the service restart exactly once, modprobe first.
C2_RestoreOnceEachAfterBusError ==
    (script = "config" /\ Exited /\ SomeWriteFailed
        /\ ~CallFailed("modprobe") /\ ~CallFailed("restart"))
        => CmdsOf(SelectSeq(calls, IsRestoreCall)) = <<"modprobe", "restart">>

\* C2 witness: the second register write of the run raised, both restoration
\* commands succeeded, the process has exited
C2_Witness ==
    /\ script = "config" /\ Exited
    /\ Len(writes) = 2 /\ ~writes[2].ok
    /\ calls = <<[cmd |-> "rmmod", ok |-> TRUE], [cmd |-> "modprobe", ok |-> TRUE],
                 [cmd |-> "restart", ok |-> TRUE]>>

\* the write list C3 states for samples r, g, b
C3_ExpectedWrites(r, g, b) ==
    <<  <<1536, 1>>, <<1537, 0>>,
        <<1538, r % 256>>, <<1539, (r \div 256) % 4>>,
        <<1540, g % 256>>, <<1541, (g \div 256) % 4>>,
        <<1542, g % 256>>, <<1543, (g \div 256) % 4>>,
        <<1544, b % 256>>, <<1545, (b \div 256) % 4>>  >>

\* C3: config script: a run with valid R, G, B in which no bus operation and
\* no command fails issues exactly the ten writes enable lsb, enable msb,
\* red, green1, green2, blue (lsb before msb) before it exits.
C3_TenWritesInOrder ==
    (script = "config" /\ Exited /\ Len(rgb) = 3
        /\ rmmodRes = "ok" /\ busOpens > 0 /\ ~SomeWriteFailed
        /\ \A i \in 1..Len(calls) : calls[i].ok)
        => RegVals(writes) = C3_ExpectedWrites(rgb[1], rgb[2], rgb[3])

\* the rmmod step of setup(): what it may change, by outcome
C4_RmmodStep ==
    (script = "config" /\ pc = "setup_rmmod")
        => /\ rmmodRes' \in {"ok", "not_loaded"}
                => /\ pc' = "setup_open"
                   /\ UNCHANGED <<busOpen, busOpens, writes, exc, exitStatus>>
           /\ rmmodRes' = "other" => pc' = "exited"
\* the state of a run whose rmmod failed for another reason
C4_OtherFailureTouchesNothing ==
    (script = "config" /\ rmmodRes = "other")
        => /\ Exited /\ exitStatus # 0
           /\ busOpens = 0 /\ busOpen = 0 /\ writes = <<>>
           /\ ~Called("modprobe") /\ ~Called("restart")

\* C4: config script, setup(): after rmmod reported "not currently loaded"
\* the run goes on to open the bus exactly as after a successful rmmod; after
\* any other rmmod failure the run has ended with an error, no bus handle
\* opened, no register written, neither modprobe nor the restart run.
C4_AlreadyUnloadedIsSuccess ==
    [][C4_RmmodStep]_vars /\ []C4_OtherFailureTouchesNothing

\* C4 witness: after "not currently loaded" the enable write was attempted
C4_Witness ==
    /\ script = "config" /\ rmmodRes = "not_loaded"
    /\ busOpens = 1 /\ Len(writes) > 0 /\ writes[1].reg = REG_ENABLE_TEST_PATTERN

\* C5: both register-writing scripts: a failed write_byte_data is the last
\* write issued (no msb of the same pair, no later pair, no retry), and the
\* failure propagates to main() instead of being absorbed.
C5_WriteFailureAbortsAndPropagates ==
    (script \in {"config", "send"})
        => \A i \in 1..Len(writes) :
              ~writes[i].ok => (i = Len(writes) /\ absorbed = 0 /\ exc # "none")
\* an argument that is not a decimal integer in [0, 1023]
InvalidSampleArg(a) == ~PyInt(a).ok \/ PyInt(a).val < 0 \/ PyInt(a).val > 1023
SomeSampleInvalid ==
    Len(argv) >= 3 /\ \E i \in 1..3 : InvalidSampleArg(argv[i])

\* C6: config script and file generator: when one of R, G, B is not an
\* integer in [0, 1023] the run never leaves argument parsing except to exit
\* with an error: no command is run, no bus handle opened, no register
\* written, no image built, no output file created.
C6_InvalidSampleNoSideEffect ==
    (script \in {"config", "genfile"} /\ SomeSampleInvalid)
        => /\ pc \in {"main", "exited"}
           /\ Exited => exitStatus = 1
           /\ calls = <<>> /\ busOpens = 0 /\ busOpen = 0 /\ writes = <<>>
           /\ image = <<>> /\ file = NoFile

\* C6 witness: the config script run with B = 1024 (R and G valid) has exited
C6_Witness ==
    /\ script = "config" /\ Exited /\ Len(argv) = 3
    /\ ~InvalidSampleArg(argv[1]) /\ ~InvalidSampleArg(argv[2])
    /\ argv[3] = PyStr(1024)
    /\ exitStatus = 1

RestoreFailed == CallFailed("modprobe") \/ CallFailed("restart")

\* C7: config script: a run that ends on a failed restoration (modprobe or
\* the service restart exiting non-zero) exits with a status different from
\* the status of a setup failure and of a bus-write failure.
C7_RestoreFailureDistinct ==
    (script = "config" /\ Exited /\ RestoreFailed)
        => exitStatus \notin {SetupFailStatus, HandlerExitStatus}

\* unpack of the raw format: value = ((msb & 0x03) << 8) | lsb
C8_Unpack(lsb, msb) == OrNat(Shl(BitAnd(msb, 3), 8), lsb)

\* C8: for v in [0, 1023], convert_10bit_to_16bit and to_rg10_bytes give
\* lsb = v mod 256 in 0..255 and msb = (v div 256) mod 4 in 0..3, unpacking
\* them gives v back, and no other sample of the range packs to the same
\* bytes.
C8_PackRoundTrip ==
    (cout.done /\ cfun \in {"convert_10bit_to_16bit", "to_rg10_bytes"}
        /\ cin \in 0..1023)
        => /\ cout.ok
           /\ Len(cout.val) = 2
           /\ cout.val[1] \in 0..255 /\ cout.val[2] \in 0..3
           /\ cout.val[1] = cin % 256
           /\ cout.val[2] = (cin \div 256) % 4
           /\ C8_Unpack(cout.val[1], cout.val[2]) = cin
           /\ \A w \in 0..1023 :
                 w # cin => /\ convert_10bit_to_16bit(w).val # cout.val
                            /\ to_rg10_bytes(w).val # cout.val

\* C8 witness: 1023 packed by convert_10bit_to_16bit to (0xFF, 0x03)
C8_Witness ==
    /\ cfun = "convert_10bit_to_16bit" /\ cin = 1023
    /\ cout.done /\ cout.val = <<255, 3>>

\* C9: for v < 0 or v > 1023, convert_10bit_to_16bit and to_rg10_bytes raise
\* and return no bytes.
C9_PackRejectsOutOfRange ==
    (cout.done /\ cfun \in {"convert_10bit_to_16bit", "to_rg10_bytes"}
        /\ (cin < 0 \/ cin > 1023))
        => ~cout.ok /\ cout.val = <<>>

\* C9 witness: to_rg10_bytes(-1) has raised
C9_Witness ==
    /\ cfun = "to_rg10_bytes" /\ cin = -1
    /\ cout.done /\ ~cout.ok

\* C10: convert_8bit_to_10bit_16bit maps 0 to 0, 128 to 512 and 255 to 1023.
C10_RescaleFixedPoints ==
    (cout.done /\ cfun = "convert_8bit_to_10bit_16bit")
        => /\ cin = 0 => cout.val = <<0>>
           /\ cin = 128 => cout.val = <<512>>
           /\ cin = 255 => cout.val = <<1023>>

\* width and height as the generator scripts read them from the command line
HasDims == Len(argv) >= 5 /\ PyInt(argv[4]).ok /\ PyInt(argv[5]).ok
ArgWidth == PyInt(argv[4]).val
ArgHeight == PyInt(argv[5]).val

\* the raw format's decoding: byte0 | ((byte1 & 0x03) << 8)
C11_Decode(b0, b1) == OrNat(b0, Shl(BitAnd(b1, 3), 8))
\* the sample C11 states for pixel (x, y)
C11_Sample(R, G, B, x, y) ==
    IF x % 2 = 0 /\ y % 2 = 0 THEN R
    ELSE IF x % 2 = 1 /\ y % 2 = 1 THEN B
    ELSE G

\* C11: both generators: for W >= 0 and H >= 0 the file written holds exactly
\* W*H*2 bytes, and the two bytes at offset 2*(y*W + x) decode to R when x and
\* y are even, to B when both are odd, to G otherwise.
C11_FrameFormat ==
    (script \in {"genfile", "genbin"} /\ file.exists /\ HasDims
        /\ ArgWidth >= 0 /\ ArgHeight >= 0)
        => /\ Len(file.data) = ArgWidth * ArgHeight * 2
           /\ \A y \in 0..(ArgHeight - 1) : \A x \in 0..(ArgWidth - 1) :
                 C11_Decode(file.data[2 * (y * ArgWidth + x) + 1],
                            file.data[2 * (y * ArgWidth + x) + 2])
                     = C11_Sample(rgb[1], rgb[2], rgb[3], x, y)

\* C11 witness: the 4x2 frame of R=1023, G=512, B=0 written by
\* generate_rg10_rggb_file.py: 1023 512 1023 512 / 512 0 512 0
C11_Witness ==
    /\ script = "genfile" /\ Exited /\ file.exists
    /\ rgb = <<1023, 512, 0>> /\ HasDims /\ ArgWidth = 4 /\ ArgHeight = 2
    /\ file.data = <<255, 3, 0, 2, 255, 3, 0, 2, 0, 2, 0, 0, 0, 2, 0, 0>>

\* C12: both generators: a negative width or height is rejected before any
\* mutation: the run ends with an error, no image built, no file created.
C12_NegativeDimensionRejected ==
    (script \in {"genfile", "genbin"} /\ HasDims
        /\ (ArgWidth < 0 \/ ArgHeight < 0))
        => /\ ~file.exists
           /\ Exited => exitStatus = 1

\* C13: config script: at most one bus handle is open at any time, and none
\* is open once setup() or send_to_camera() has returned or raised: not
\* during cleanup(), not when the process has exited.
C13_BusHandleScoped ==
    (script \in {"config", "config_send"})
        => /\ busOpen \in 0..1
           /\ busOpen <= busOpens
           /\ pc \in {"send_call", "handler_modprobe", "handler_restart",
                      "handler_exit", "exited", "returned", "raised"}
                => busOpen = 0

\* C13 witness: send_to_camera() raised on the lsb write of the third pair,
\* its one handle released
C13_Witness ==
    /\ script = "config_send" /\ pc = "raised"
    /\ Len(writes) = 5 /\ ~writes[5].ok
    /\ busOpens = 1 /\ busOpen = 0

\* position of the first run of cmd in calls, 0 when it never ran
FirstCall(cmd) ==
    IF Called(cmd)
    THEN CHOOSE i \in 1..Len(calls) :
            calls[i].cmd = cmd /\ \A j \in 1..(i - 1) : calls[j].cmd # cmd
    ELSE 0
CountCalls(cmd) == Len(SelectSeq(calls, LAMBDA c : c.cmd = cmd))

\* C14: config script: on a run in which rmmod, the bus and the commands so
\* far succeeded, restoration (modprobe) starts only after the enable pair
\* and the four channel pairs were written and the preview has run: the
\* order is detach, enable, channel writes, preview, restore.
C14_PreviewBeforeRestore ==
    (script = "config" /\ rmmodRes = "ok" /\ busOpens > 0 /\ ~SomeWriteFailed
        /\ Called("modprobe"))
        => /\ Len(writes) = 10
           /\ Called("gst-launch")
           /\ FirstCall("gst-launch") < FirstCall("modprobe")

\* C15: config script: rmmod, modprobe, the service restart and the preview
\* are each run at most once in a run, whatever step fails, and after a
\* failed modprobe the run ends without attempting the restart.
C15_NoCollaboratorRepeated ==
    (script = "config")
        => /\ \A cmd \in {"rmmod", "modprobe", "restart", "gst-launch"} :
                 CountCalls(cmd) <= 1
           /\ CallFailed("modprobe") => (Exited /\ ~Called("restart"))

\* C15 witness: a run whose enable write raised and whose modprobe failed has
\* exited after exactly rmmod and modprobe
C15_Witness ==
    /\ script = "config" /\ Exited /\ SomeWriteFailed
    /\ calls = <<[cmd |-> "rmmod", ok |-> TRUE], [cmd |-> "modprobe", ok |-> FALSE]>>

\* C16: register-writing scripts: every write_byte_data call passes a
\* register address in 0..255 and a value in 0..255.
C16_EightBitRegisterWrites ==
    (script \in {"config", "config_send", "send"})
        => \A i \in 1..Len(writes) :
              writes[i].reg \in 0..255 /\ writes[i].val \in 0..255

InDomain8 == cin \in 0..255
\* the state part of C17
C17_TablesAgree ==
    (cfun \in Codec8Funs)
        => /\ Len(lut16) = 256 /\ Len(lutScaled) = 256
           /\ (cout.done /\ InDomain8 /\ cfun = "convert_8bit_to_10bit_lut_16bit")
                => /\ cout.ok
                   /\ cout.val = convert_8bit_to_10bit_16bit(cin).val
           /\ (cout.done /\ InDomain8 /\ cfun = "convert_8bit_to_10bit_lut_scaled_16bit")
                => /\ cout.ok
                   /\ cout.val = convert_8bit_to_10bit_scaled_16bit(cin).val
                   /\ cout.val[1] = 16 * convert_8bit_to_10bit_16bit(cin).val[1]
           /\ (cout.done /\ InDomain8 /\ cfun = "convert_8bit_to_10bit_scaled_16bit")
                => /\ cout.ok
                   /\ cout.val[1] = 16 * convert_8bit_to_10bit_16bit(cin).val[1]

\* C17: for v in 0..255 the table lookups return what the computed
\* conversions return, the scaled ones 16 times the unscaled one; both
\* tables hold 256 entries and no conversion call changes them.
C17_LookupTablesFaithful ==
    []C17_TablesAgree /\ [][lut16' = lut16 /\ lutScaled' = lutScaled]_vars

\* C17 witness: the scaled table lookup of 128 returned 16 * 514 = 0x2020
C17_Witness ==
    /\ cfun = "convert_8bit_to_10bit_lut_scaled_16bit" /\ cin = 128
    /\ cout.done /\ cout.val = <<8224>>

\* C18: for v outside 0..255 the computed conversions and the table lookups
\* all raise, none returns a value.
C18_AllVariantsRejectOutOfDomain ==
    (cout.done /\ cfun \in Codec8Funs /\ ~InDomain8) => ~cout.ok

====
